---- MODULE Spec2Model ----
(***************************************************************************)
(* State-machine model of services/matching_service.py (MatchingService):  *)
(* the weight store, the MatchScore table, the operations that write or    *)
(* list match scores and the four component scorers.  Numbers the code     *)
(* keeps as floats are kept here as exact fractions <<numerator,           *)
(* denominator>>.                                                          *)
(***************************************************************************)
EXTENDS Integers, Sequences, FiniteSets, TLC

VARIABLES
    weights_rows,       \* MatchingWeights table: scope (0 = global, client id) -> row or NoRow
    match_scores,       \* MatchScore table: a set of rows, each with its own primary key id
    job_status,         \* Job.status per job
    consultant_status,  \* Consultant.status per consultant
    applications,       \* Application table: set of <<consultant_id, job_id>>
    now,                \* wall clock, in hours
    last,               \* the last public call: operation, arguments, returned dict, logged errors
    callers,            \* concurrent recalculate_all_matches callers: position and session
    store_fault,        \* how the database answers: NoFault, Down, or CommitFault(job)
    scoring             \* one application of a component scorer: its inputs and its result

vars == <<weights_rows, match_scores, job_status, consultant_status, applications, now, last,
          callers, store_fault, scoring>>

----------------------------------------------------------------------------
(* Bounds of the model *)

MaxTime == 26
TickHours == 13
MaxDenominator == 41

----------------------------------------------------------------------------
(* Exact fractions standing for Python floats *)

Abs(x) == IF x < 0 THEN -x ELSE x

RECURSIVE Gcd(_, _)
Gcd(a, b) == IF b = 0 THEN a ELSE Gcd(b, a % b)

Rat(n, d) ==
    LET g == Gcd(Abs(n), Abs(d))
        s == IF d < 0 THEN -1 ELSE 1
    IN  <<(s * n) \div g, (s * d) \div g>>

\* Python's None for a numeric attribute (no fraction has denominator 0)
None == <<0, 0>>

Zero == <<0, 1>>
One == <<1, 1>>
Half == <<1, 2>>

RAdd(a, b) == Rat(a[1] * b[2] + b[1] * a[2], a[2] * b[2])
RSub(a, b) == Rat(a[1] * b[2] - b[1] * a[2], a[2] * b[2])
RMul(a, b) == Rat(a[1] * b[1], a[2] * b[2])
RDiv(a, b) == Rat(a[1] * b[2], a[2] * b[1])
RLt(a, b) == a[1] * b[2] < b[1] * a[2]
RLe(a, b) == a[1] * b[2] <= b[1] * a[2]
RMax(a, b) == IF RLt(a, b) THEN b ELSE a
RMin(a, b) == IF RLt(b, a) THEN b ELSE a

----------------------------------------------------------------------------
(* The Job / Consultant / Skill data the engine reads (owned by the HR side) *)

Jobs == {1, 2}
Consultants == {1, 2}
NoClient == 0

\* Job.client_id
JobClient(j) == IF j = 1 THEN 1 ELSE NoClient

\* job.required_skills: skill_id -> (is_required, importance); importance 0 is a NULL column
JobSkillRows(j) ==
    IF j = 1
    THEN [s \in {"A", "B"} |-> IF s = "A" THEN [required |-> TRUE, importance |-> 5]
                                            ELSE [required |-> FALSE, importance |-> 2]]
    ELSE [s \in {"B"} |-> [required |-> TRUE, importance |-> 0]]

\* Job.rate_min / rate_max; 0 stands for a missing value (the code tests truthiness)
JobRateMin(j) == IF j = 1 THEN 0 ELSE 50
JobRateMax(j) == IF j = 1 THEN 0 ELSE 100

\* Job.location as a sequence of characters; <<>> is a blank location
JobLocation(j) == IF j = 1 THEN <<>> ELSE <<"A", ",", " ", "N", "L">>

\* consultant.skills: skill_id -> (level, years_experience); 0 is a NULL column
ConsultantSkillRows(c) ==
    IF c = 1
    THEN [s \in {"A"} |-> [level |-> 5, years |-> 3]]
    ELSE [s \in {} |-> [level |-> 0, years |-> 0]]

ConsultantRate(c) == IF c = 1 THEN 120 ELSE 0

ConsultantLocation(c) == IF c = 1 THEN <<"U", ",", "n", "l", " ">> ELSE <<>>

----------------------------------------------------------------------------
(* Component scorers *)

\* `x or 3`
OrThree(x) == IF x = 0 THEN 3 ELSE x

RECURSIVE SumOver(_, _)
SumOver(f, S) ==
    IF S = {} THEN Zero
    ELSE LET x == CHOOSE y \in S : TRUE IN RAdd(f[x], SumOver(f, S \ {x}))

\* job_skills / total_importance as built by the callers of _calculate_skill_match
JobSkillsOf(rows) ==
    [s \in DOMAIN rows |->
        [required |-> rows[s].required, importance |-> OrThree(rows[s].importance)]]

TotalImportanceOf(rows) ==
    SumOver([s \in DOMAIN rows |-> <<OrThree(rows[s].importance), 1>>], DOMAIN rows)[1]

JobSkills(j) == JobSkillsOf(JobSkillRows(j))

TotalImportance(j) == TotalImportanceOf(JobSkillRows(j))

\* lines 589-603: the running score over the skills the consultant holds
SkillSum(cskills, job_skills, total_importance) ==
    SumOver([s \in DOMAIN cskills \cap DOMAIN job_skills |->
                RMul(Rat(OrThree(cskills[s].level), 5),
                     Rat(job_skills[s].importance, total_importance))],
            DOMAIN cskills \cap DOMAIN job_skills)

\* the scorer without the search of lines 606-616: missing_required stays False
NoneMissing(cskills, job_skills) == FALSE

\* lines 606-616
MissingRequired(cskills, job_skills) ==
    \E s \in DOMAIN job_skills : job_skills[s].required /\ s \notin DOMAIN cskills

\* the scorer without the max(0, ...) of line 620
SkillMatchUnfloored(cskills, job_skills, total_importance) ==
    IF DOMAIN job_skills = {} THEN Half
    ELSE IF MissingRequired(cskills, job_skills)
    THEN RMin(One, RSub(SkillSum(cskills, job_skills, total_importance), <<3, 10>>))
    ELSE RMin(One, SkillSum(cskills, job_skills, total_importance))

\* the scorer with 0.3 taken off for each required skill that is absent
SkillMatchPerMissing(cskills, job_skills, total_importance) ==
    IF DOMAIN job_skills = {} THEN Half
    ELSE RMin(One, RMax(Zero,
             RSub(SkillSum(cskills, job_skills, total_importance),
                  Rat(3 * Cardinality({s \in DOMAIN job_skills :
                          job_skills[s].required /\ s \notin DOMAIN cskills}), 10))))

_calculate_skill_match(cskills, job_skills, total_importance) ==
    IF DOMAIN job_skills = {} THEN Half
    ELSE IF MissingRequired(cskills, job_skills)
    THEN RMin(One, RMax(Zero, RSub(SkillSum(cskills, job_skills, total_importance), <<3, 10>>)))
    ELSE RMin(One, SkillSum(cskills, job_skills, total_importance))

\* log10(1 + avg_years) / log10(11), in thousandths, for whole avg_years
LogRatioMilli(avg) ==
    CASE avg = 1 -> 289 [] avg = 2 -> 458 [] avg = 3 -> 578 [] avg = 4 -> 671
      [] avg = 5 -> 747 [] avg = 6 -> 811 [] avg = 7 -> 867 [] avg = 8 -> 916
      [] avg = 9 -> 960 [] OTHER -> 1000

_calculate_experience_match(cskills) ==
    LET counted == {s \in DOMAIN cskills : cskills[s].years # 0}
        total_years == SumOver([s \in counted |-> <<cskills[s].years, 1>>], counted)[1]
        skill_count == Cardinality(counted)
    IN  IF skill_count = 0 THEN Half
        ELSE RMin(One, Rat(LogRatioMilli(total_years \div skill_count), 1000))

\* a column that is NULL (None in Python)
Missing == -1

\* `not x` for a number or None
Absent(x) == x = Missing \/ x = 0

\* the scorer without the max(0, ...) of lines 667 and 674
RateMatchUnfloored(hourly_rate, rate_min, rate_max) ==
    IF Absent(hourly_rate) \/ Absent(rate_min) \/ Absent(rate_max) THEN Half
    ELSE IF rate_min <= hourly_rate /\ hourly_rate <= rate_max THEN One
    ELSE IF hourly_rate < rate_min THEN RSub(One, Rat(rate_min - hourly_rate, rate_min))
    ELSE RSub(One, Rat(hourly_rate - rate_max, rate_max))

_calculate_rate_match(hourly_rate, rate_min, rate_max) ==
    IF Absent(hourly_rate) \/ Absent(rate_min) \/ Absent(rate_max) THEN Half
    ELSE IF rate_min <= hourly_rate /\ hourly_rate <= rate_max THEN One
    ELSE IF hourly_rate < rate_min
         THEN RMax(Zero, RSub(One, Rat(rate_min - hourly_rate, rate_min)))
         ELSE RMax(Zero, RSub(One, Rat(hourly_rate - rate_max, rate_max)))

\* str.lower() on the characters the data uses
LowerChar(ch) ==
    CASE ch = "A" -> "a" [] ch = "N" -> "n" [] ch = "L" -> "l" [] ch = "U" -> "u"
      [] OTHER -> ch

Lower(str) == [i \in 1..Len(str) |-> LowerChar(str[i])]

\* str.split(',')[-1]: the text after the last comma (the whole string without one)
RECURSIVE LastSegment(_)
LastSegment(str) ==
    IF str = <<>> THEN <<>>
    ELSE IF str[Len(str)] = "," THEN <<>>
    ELSE Append(LastSegment(SubSeq(str, 1, Len(str) - 1)), str[Len(str)])

HasComma(str) == \E i \in 1..Len(str) : str[i] = ","

\* str.strip(): leading and trailing blanks removed
RECURSIVE StripLeft(_)
StripLeft(str) ==
    IF str # <<>> /\ str[1] = " " THEN StripLeft(Tail(str)) ELSE str

RECURSIVE StripRight(_)
StripRight(str) ==
    IF str # <<>> /\ str[Len(str)] = " " THEN StripRight(SubSeq(str, 1, Len(str) - 1)) ELSE str

Strip(str) == StripRight(StripLeft(str))

\* the scorer without the .strip() of lines 695-696
LocationMatchUnstripped(consultant_location_raw, job_location_lower) ==
    IF job_location_lower = <<>> \/ consultant_location_raw = <<>> THEN Half
    ELSE IF Lower(consultant_location_raw) = job_location_lower THEN One
    ELSE IF HasComma(job_location_lower) /\ HasComma(Lower(consultant_location_raw))
            /\ LastSegment(job_location_lower) = LastSegment(Lower(consultant_location_raw))
    THEN <<4, 5>>
    ELSE <<1, 5>>

_calculate_location_match(consultant_location_raw, job_location_lower) ==
    IF job_location_lower = <<>> \/ consultant_location_raw = <<>> THEN Half
    ELSE
        LET consultant_location == Lower(consultant_location_raw)
        IN  IF consultant_location = job_location_lower THEN One
            ELSE IF HasComma(job_location_lower) /\ HasComma(consultant_location)
                    /\ Strip(LastSegment(job_location_lower))
                        = Strip(LastSegment(consultant_location))
                 THEN <<4, 5>>
                 ELSE <<1, 5>>

----------------------------------------------------------------------------
(* The component scorers applied to drawn inputs *)

SkillIds == {"A", "B", "C"}

\* job.required_skills over three skills; importance 0 is a NULL column
JobSkillInputs ==
    UNION {[S -> [required : BOOLEAN, importance : {0, 2, 5}]] : S \in SUBSET SkillIds}

\* consultant.skills over three skills; level 0 and years 0 are NULL columns
ConsultantSkillInputs ==
    UNION {[S -> {[level |-> 0, years |-> 0], [level |-> 1, years |-> 3],
                  [level |-> 5, years |-> 9]}] : S \in SUBSET SkillIds}

HourlyRateInputs == {Missing, 0, 25, 50, 75, 100, 150, 200, 250}
RateMinInputs == {Missing, 0, 50, 100}
RateMaxInputs == {Missing, 0, 100, 200}

\* "", "A, NL", "a, nl", "A,NL", "U,nl ", "U, NL", "NL", "A, U", "L, A, NL"
LocationInputs ==
    {<<>>,
     <<"A", ",", " ", "N", "L">>,
     <<"a", ",", " ", "n", "l">>,
     <<"A", ",", "N", "L">>,
     <<"U", ",", "n", "l", " ">>,
     <<"U", ",", " ", "N", "L">>,
     <<"N", "L">>,
     <<"A", ",", " ", "U">>,
     <<"L", ",", " ", "A", ",", " ", "N", "L">>}

\* the inputs of one scorer call, before it is made
Scoring(fn, cskills, rows, hourly_rate, rate_min, rate_max, consultant_location, job_location) ==
    [fn |-> fn, consultant_skills |-> cskills, job_skill_rows |-> rows,
     hourly_rate |-> hourly_rate, rate_min |-> rate_min, rate_max |-> rate_max,
     consultant_location |-> consultant_location, job_location |-> job_location,
     done |-> FALSE, result |-> None]

NoSkills == [s \in {} |-> [level |-> 0, years |-> 0]]
NoSkillRows == [s \in {} |-> [required |-> FALSE, importance |-> 0]]

\* no scorer call is being looked at
NoScoring == Scoring("none", NoSkills, NoSkillRows, Missing, Missing, Missing, <<>>, <<>>)

ScoringInputs ==
    {Scoring("skill", cs, rows, Missing, Missing, Missing, <<>>, <<>>) :
        cs \in ConsultantSkillInputs, rows \in JobSkillInputs}
    \cup {Scoring("experience", cs, NoSkillRows, Missing, Missing, Missing, <<>>, <<>>) :
        cs \in ConsultantSkillInputs}
    \cup {Scoring("rate", NoSkills, NoSkillRows, r[1], r[2], r[3], <<>>, <<>>) :
        r \in HourlyRateInputs \X RateMinInputs \X RateMaxInputs}
    \cup {Scoring("location", NoSkills, NoSkillRows, Missing, Missing, Missing, l[1], l[2]) :
        l \in LocationInputs \X LocationInputs}

Scored(value) ==
    /\ ~scoring.done
    /\ scoring' = [scoring EXCEPT !.done = TRUE, !.result = value]
    /\ UNCHANGED <<weights_rows, match_scores, job_status, consultant_status, applications,
                   now, last, callers, store_fault>>

\* lines 421-429, 437: the caller builds job_skills and total_importance
ScoreSkill ==
    /\ scoring.fn = "skill"
    /\ Scored(_calculate_skill_match(scoring.consultant_skills,
                                     JobSkillsOf(scoring.job_skill_rows),
                                     TotalImportanceOf(scoring.job_skill_rows)))

ScoreExperience ==
    /\ scoring.fn = "experience"
    /\ Scored(_calculate_experience_match(scoring.consultant_skills))

ScoreRate ==
    /\ scoring.fn = "rate"
    /\ Scored(_calculate_rate_match(scoring.hourly_rate, scoring.rate_min, scoring.rate_max))

\* lines 432, 446: the caller passes job.location.lower(), "" for a job without one
ScoreLocation ==
    /\ scoring.fn = "location"
    /\ Scored(_calculate_location_match(scoring.consultant_location,
                                        Lower(scoring.job_location)))

----------------------------------------------------------------------------
(* Rows of the two tables the engine writes *)

\* the module with `from datetime import timezone` added
TimezoneImported == TRUE

\* names the module binds: `timezone` is used on lines 59, 159, 357, 468 and 561
\* but the import on line 9 brings in only datetime and timedelta
TimezoneBound == FALSE

\* timedelta(hours=24)
StaleHours == 24

Fields == {"skill_weight", "experience_weight", "rate_weight", "location_weight"}

WeightsRow(id, sw, ew, rw, lw) ==
    [id |-> id, skill_weight |-> sw, experience_weight |-> ew,
     rate_weight |-> rw, location_weight |-> lw]

\* no MatchingWeights row for a scope; also MatchingWeights(client_id=...) before any
\* attribute is set (id and the four weights are None)
NoRow == WeightsRow(0, None, None, None, None)

\* MatchingService.__init__: the global row with the default weights
DefaultGlobalWeights == WeightsRow(1, <<1, 2>>, <<1, 5>>, <<1, 5>>, <<1, 10>>)

Scopes == {NoClient, 1}

\* self.global_weights for every job, whatever its client
GlobalWeightsOnly(j) == weights_rows[NoClient]

\* MatchingWeights.query.filter_by(client_id=job.client_id).first() or self.global_weights
WeightsFor(j) ==
    IF weights_rows[JobClient(j)].id # 0 THEN weights_rows[JobClient(j)]
    ELSE weights_rows[NoClient]

\* the value MatchScore.last_calculated gets when a row is inserted without one
DefaultLastCalculated(t) == t

\* a MatchScore table without a key on the pair
NoPairKey(rows, c, j) == TRUE

\* the (consultant_id, job_id) key of the MatchScore table: TRUE when row r may be added
UniquePairKey(rows, c, j) ==
    ~ \E r \in rows : r.consultant_id = c /\ r.job_id = j

ActiveConsultants == {c \in Consultants : consultant_status[c] = "active"}
OpenJobs == {j \in Jobs : job_status[j] = "open"}

\* a set of ids as the ascending list a query returns
RECURSIVE Ascending(_)
Ascending(S) ==
    IF S = {} THEN <<>>
    ELSE LET m == CHOOSE x \in S : \A y \in S : x <= y IN <<m>> \o Ascending(S \ {m})

\* the four component scores of every pair (lines 436-446, 528-538); they depend on the
\* consultant and the job alone
ComponentScores ==
    [c \in Consultants |-> [j \in Jobs |->
        [skill |-> _calculate_skill_match(ConsultantSkillRows(c), JobSkills(j),
                                          TotalImportance(j)),
         experience |-> _calculate_experience_match(ConsultantSkillRows(c)),
         rate |-> _calculate_rate_match(ConsultantRate(c), JobRateMin(j), JobRateMax(j)),
         location |-> _calculate_location_match(ConsultantLocation(c),
                                                Lower(JobLocation(j)))]]]

\* the scores of one pair with the total left on the 0-1 scale (line 454 without `* 100`)
PairScoresUnscaled(c, j, w) ==
    [total_score |-> RAdd(RAdd(RMul(ComponentScores[c][j].skill, w.skill_weight),
                               RMul(ComponentScores[c][j].experience, w.experience_weight)),
                          RAdd(RMul(ComponentScores[c][j].rate, w.rate_weight),
                               RMul(ComponentScores[c][j].location, w.location_weight))),
     skill_score |-> RMul(ComponentScores[c][j].skill, <<100, 1>>),
     experience_score |-> RMul(ComponentScores[c][j].experience, <<100, 1>>),
     rate_score |-> RMul(ComponentScores[c][j].rate, <<100, 1>>),
     location_score |-> RMul(ComponentScores[c][j].location, <<100, 1>>)]

\* the component scores and the weighted total of one pair, times 100 (lines 436-454,
\* 528-547)
PairScores(c, j, w) ==
    LET s == ComponentScores[c][j]
        hundred == <<100, 1>>
    IN  [total_score |-> RMul(RAdd(RAdd(RMul(s.skill, w.skill_weight),
                                         RMul(s.experience, w.experience_weight)),
                                    RAdd(RMul(s.rate, w.rate_weight),
                                         RMul(s.location, w.location_weight))), hundred),
         skill_score |-> RMul(s.skill, hundred),
         experience_score |-> RMul(s.experience, hundred),
         rate_score |-> RMul(s.rate, hundred),
         location_score |-> RMul(s.location, hundred)]

NewMatchScore(id, c, j, sc, t) ==
    [id |-> id, consultant_id |-> c, job_id |-> j,
     total_score |-> sc.total_score, skill_score |-> sc.skill_score,
     experience_score |-> sc.experience_score, rate_score |-> sc.rate_score,
     location_score |-> sc.location_score, last_calculated |-> DefaultLastCalculated(t)]

\* a lookup that finds no row
LookupMatchNone(rows, c, j) == {}

\* MatchScore.query.filter_by(consultant_id=..., job_id=...): the rows the lookup sees
LookupMatch(rows, c, j) == {r \in rows : r.consultant_id = c /\ r.job_id = j}

\* .first() of a query without an order: the row with the lowest id
First(S) == CHOOSE r \in S : \A q \in S : r.id <= q.id

\* lines 456-481 (556-574): the row found is updated in place, or a new row is added;
\* done holds the rows written so far, their count and the exception raised ("" for none)
UpsertRow(done, c, j, sc, found, t) ==
    IF found # {}
    THEN IF ~TimezoneBound
         THEN [done EXCEPT !.error = "NameError"]
         ELSE [done EXCEPT !.rows = (@ \ {First(found)}) \cup
                               {[NewMatchScore(First(found).id, c, j, sc, t)
                                    EXCEPT !.last_calculated = t]},
                           !.count = @ + 1]
    ELSE IF ~UniquePairKey(done.rows, c, j)
         THEN [done EXCEPT !.error = "IntegrityError"]
         ELSE [done EXCEPT !.rows = @ \cup {NewMatchScore(Cardinality(@) + 1, c, j, sc, t)},
                           !.count = @ + 1]

\* lines 436-481 (528-574): the scores of one pair, the lookup of its row, the write
ScoreAndUpsert(done, c, j, t) ==
    UpsertRow(done, c, j, PairScores(c, j, WeightsFor(j)), LookupMatch(done.rows, c, j), t)

\* the loop of _calculate_matches_for_job / _calculate_matches_for_consultant over the
\* pairs still to do; an exception leaves the loop
RECURSIVE CalcLoop(_, _, _)
CalcLoop(todo, done, t) ==
    IF todo = <<>> \/ done.error # "" THEN done
    ELSE CalcLoop(Tail(todo), ScoreAndUpsert(done, Head(todo)[1], Head(todo)[2], t), t)

\* the database answers every access; every access raises; the commit of the
\* recomputation of one job raises
NoFault == <<"none", 0>>
Down == <<"down", 0>>
CommitFault(j) == <<"commit", j>>

\* line 483 (576): db.session.commit(), which raises when fails
Commit(done, fails) ==
    IF done.error = "" /\ fails THEN [done EXCEPT !.error = "OperationalError"] ELSE done

\* commit and return match_count / except: rollback, log, return 0
Settle(rows, done) ==
    IF done.error = "" THEN done ELSE [rows |-> rows, error |-> done.error, count |-> 0]

\* try: loop, commit / except: rollback
Calculate(todo, rows, t, fails) ==
    Settle(rows, Commit(CalcLoop(todo, [rows |-> rows, error |-> "", count |-> 0], t), fails))

_calculate_matches_for_job(j, rows, t) ==
    Calculate([i \in 1..Cardinality(ActiveConsultants) |->
                  <<Ascending(ActiveConsultants)[i], j>>], rows, t,
              store_fault = CommitFault(j))

\* the consultant-driven loop with self.global_weights for every job
CalculateForConsultantGlobalWeights(c, rows, t) ==
    [rows |-> {[r EXCEPT !.total_score =
                   IF r.consultant_id = c /\ r \notin rows
                   THEN PairScores(c, r.job_id, weights_rows[NoClient]).total_score ELSE @] :
               r \in Calculate([i \in 1..Cardinality(OpenJobs) |->
                                   <<c, Ascending(OpenJobs)[i]>>], rows, t,
                               store_fault[1] = "commit").rows},
     error |-> Calculate([i \in 1..Cardinality(OpenJobs) |-> <<c, Ascending(OpenJobs)[i]>>],
                         rows, t, store_fault[1] = "commit").error,
     count |-> Calculate([i \in 1..Cardinality(OpenJobs) |-> <<c, Ascending(OpenJobs)[i]>>],
                         rows, t, store_fault[1] = "commit").count]

_calculate_matches_for_consultant(c, rows, t) ==
    Calculate([i \in 1..Cardinality(OpenJobs) |-> <<c, Ascending(OpenJobs)[i]>>], rows, t,
              store_fault[1] = "commit")

----------------------------------------------------------------------------
(* Inputs of the public operations *)

\* a weights_data value float() rejects
NotNumeric == <<1, 0>>

WeightValues == {<<0, 1>>, <<1, 1>>, <<2, 1>>, <<-1, 1>>, NotNumeric}

\* weights_data: any subset of the four fields, each with a value
Payloads == UNION {[F -> WeightValues] : F \in SUBSET Fields}

\* the documented scenario {skill_weight: 2, experience_weight: 1, rate_weight: 1}
\* and a weights_data with a negative field
ScenarioPayload ==
    [f \in {"skill_weight", "experience_weight", "rate_weight"} |->
        IF f = "skill_weight" THEN <<2, 1>> ELSE <<1, 1>>]

NegativePayload ==
    [f \in Fields |-> CASE f = "skill_weight" -> <<-1, 1>> [] f = "rate_weight" -> <<2, 1>>
                        [] OTHER -> <<0, 1>>]

\* (weights_data, client_id) of the updates the full program is run with
MainUpdates == {<<ScenarioPayload, NoClient>>, <<NegativePayload, NoClient>>}

JobIdInputs == Jobs \cup {3}
ConsultantIdInputs == Consultants \cup {3}
LimitInputs == {1, 2}
MinScoreInputs == {<<0, 1>>, <<50, 1>>}

----------------------------------------------------------------------------
(* The returned dict and the log of the last call *)

\* `last` holds the call that produced the current state: its arguments, the dict it
\* returned and what it logged.  repeat says that the public call before it was
\* find_matches_for_job for the same job, less than StaleHours earlier.  After a step
\* of the clock or the HR side op is "none" and prev_id / prev_at keep the job and the
\* time of the latest public call when that was a find_matches_for_job (else 0).
PrevJob == IF last.op = "none" THEN last.prev_id
           ELSE IF last.op = "find_matches_for_job" THEN last.id ELSE 0

PrevAt == IF last.op = "none" THEN last.prev_at ELSE last.at

\* the 'statistics' of a dict that has none
NoStatistics ==
    [total_matches |-> 0, recent_matches |-> 0, average_score |-> Zero,
     high_score_matches |-> 0, low_score_matches |-> 0, top_matching_jobs |-> <<>>]

Call(op, id, recalculate, status, matches, count, logged) ==
    [op |-> op, id |-> id, recalculate |-> recalculate, status |-> status, matches |-> matches,
     count |-> count, logged |-> logged, at |-> now, statistics |-> NoStatistics,
     weights_used |-> NoRow,
     repeat |-> op = "find_matches_for_job" /\ PrevJob = id /\ now - PrevAt < StaleHours,
     prev_id |-> 0, prev_at |-> 0]

NoCall ==
    [op |-> "none", id |-> 0, recalculate |-> FALSE, status |-> "none", matches |-> <<>>,
     count |-> 0, logged |-> {}, at |-> 0, statistics |-> NoStatistics,
     weights_used |-> NoRow,
     repeat |-> FALSE, prev_id |-> PrevJob, prev_at |-> IF PrevJob = 0 THEN 0 ELSE PrevAt]

Logged(error) == IF error = "" THEN {} ELSE {error}

\* what a call returns without matches: 'Job not found', or the except of lines 133-138
ErrorResponse(logged) ==
    [rows |-> match_scores, status |-> "error", matches |-> <<>>, count |-> 0,
     logged |-> logged, weights_used |-> NoRow]

----------------------------------------------------------------------------
(* update_matching_weights *)

IsNumber(v) == v[2] # 0

\* lines 296-307: every provided field overwrites
Overwrite(weights, data) ==
    [f \in DOMAIN weights |-> IF f \in DOMAIN data THEN data[f] ELSE weights[f]]

WeightTotal(w) ==
    RAdd(RAdd(w.skill_weight, w.experience_weight), RAdd(w.rate_weight, w.location_weight))

\* lines 309-315
Normalize(w) ==
    LET total == WeightTotal(w)
    IN  IF RLt(Zero, total)
        THEN [w EXCEPT !.skill_weight = RDiv(@, total),
                       !.experience_weight = RDiv(@, total),
                       !.rate_weight = RDiv(@, total),
                       !.location_weight = RDiv(@, total)]
        ELSE w

\* the exception the try block of update_matching_weights ends with, "" for none
UpdateError(weights, data) ==
    IF \E f \in DOMAIN data : ~IsNumber(data[f]) THEN "ValueError"
    ELSE IF \E f \in Fields : Overwrite(weights, data)[f] = None THEN "TypeError"
    ELSE ""

\* lines 317-320: add a new row, commit
Saved(w, client) == [w EXCEPT !.id = IF @ = 0 THEN client + 1 ELSE @]

WithinDenominator(w) == \A f \in Fields : w[f][2] <= MaxDenominator

\* the exception of the call: the query of line 290 and the commit of line 320 raise
\* when the database is down
UpdateFailure(weights, data, client) ==
    IF store_fault = Down /\ client # NoClient THEN "OperationalError"
    ELSE IF UpdateError(weights, data) # "" THEN UpdateError(weights, data)
    ELSE IF store_fault = Down THEN "OperationalError"
    ELSE ""

update_matching_weights(data, client) ==
    LET weights == weights_rows[client]
        error == UpdateFailure(weights, data, client)
        result == IF error = "" THEN Saved(Normalize(Overwrite(weights, data)), client)
                  ELSE weights
    IN  /\ WithinDenominator(result)
        /\ weights_rows' = [weights_rows EXCEPT ![client] = result]
        /\ last' = Call("update_matching_weights", client, FALSE,
                        IF error = "" THEN "success" ELSE "error", <<>>, 0, Logged(error))
        /\ UNCHANGED <<scoring, store_fault, callers, match_scores, job_status, consultant_status, applications, now>>

----------------------------------------------------------------------------
(* recalculate_all_matches *)

\* line 262: total_matches += job_matches (and what the job logged)
Accumulate(all, one) ==
    [rows |-> one.rows, count |-> all.count + one.count,
     logged |-> all.logged \cup Logged(one.error)]

\* lines 257-262: one _calculate_matches_for_job per open job, each with its own commit
RECURSIVE RecalculateLoop(_, _, _)
RecalculateLoop(jobs, all, t) ==
    IF jobs = <<>> THEN all
    ELSE RecalculateLoop(Tail(jobs),
                         Accumulate(all, _calculate_matches_for_job(Head(jobs), all.rows, t)),
                         t)

\* lines 264-267: the dict with status 'success'
RecalculateResponse(all) ==
    [rows |-> all.rows, status |-> "success", matches |-> <<>>, count |-> all.count,
     logged |-> all.logged]

recalculate_all_matches ==
    \E response \in {IF store_fault = Down
                     THEN ErrorResponse({"OperationalError"})
                     ELSE RecalculateResponse(RecalculateLoop(Ascending(OpenJobs),
                              [rows |-> match_scores, count |-> 0, logged |-> {}], now))} :
        /\ match_scores' = response.rows
        /\ last' = Call("recalculate_all_matches", 0, FALSE, response.status, response.matches,
                        response.count, response.logged)
        /\ UNCHANGED <<scoring, store_fault, callers, weights_rows, job_status, consultant_status, applications, now>>

----------------------------------------------------------------------------
(* find_matches_for_job / find_jobs_for_consultant *)

\* query.order_by(MatchScore.total_score.desc()): highest total first (equal totals by id)
RECURSIVE OrderDesc(_)
OrderDesc(S) ==
    IF S = {} THEN <<>>
    ELSE LET top == CHOOSE r \in S : \A q \in S :
                        \/ RLt(q.total_score, r.total_score)
                        \/ (q.total_score = r.total_score /\ r.id <= q.id)
         IN  <<top>> \o OrderDesc(S \ {top})

\* .limit(limit)
Take(seq, limit) == SubSeq(seq, 1, IF Len(seq) < limit THEN Len(seq) ELSE limit)

\* lines 58-64: recalculate, or no row for the job, or a row of the job older than 24 hours
JobNeedsCalculation(j, recalculate, rows, t) ==
    \/ recalculate
    \/ ~ \E r \in rows : r.job_id = j
    \/ \E r \in rows : r.job_id = j /\ r.last_calculated < t - StaleHours

\* lines 67-79
JobQuery(j, limit, min_score, rows) ==
    LET existing_applicants == {a[1] : a \in {x \in applications : x[2] = j}}
        scored == {r \in rows : r.job_id = j /\ RLe(min_score, r.total_score)}
        query == IF existing_applicants # {}
                 THEN {r \in scored : r.consultant_id \notin existing_applicants}
                 ELSE scored
    IN  Take(OrderDesc(query), limit)

\* lines 82-114: one entry per score row
JobMatches(scores) ==
    [i \in 1..Len(scores) |-> [id |-> scores[i].consultant_id, total |-> scores[i].total_score]]

\* the call with timezone imported and without lines 68-73, the exclusion of applicants
JobResponseUnfiltered(job_id, limit, min_score, recalculate) ==
    IF job_id \notin Jobs
    THEN [rows |-> match_scores, status |-> "error", matches |-> <<>>, count |-> 0,
          logged |-> {}, weights_used |-> NoRow]
    ELSE [rows |-> match_scores, status |-> "success",
          matches |-> JobMatches(Take(OrderDesc({r \in match_scores :
                                     r.job_id = job_id /\ RLe(min_score, r.total_score)}),
                                      limit)),
          count |-> 0, logged |-> {}, weights_used |-> WeightsFor(job_id)]

\* the call without the test of lines 51-52: line 56 reads job.client_id of None
JobResponseUnchecked(job_id, limit, min_score, recalculate) ==
    IF store_fault = Down THEN ErrorResponse({"OperationalError"})
    ELSE IF job_id \notin Jobs THEN ErrorResponse({"AttributeError"})
    ELSE ErrorResponse({"NameError"})

\* lines 66-131: the query on the rows as they are after the recalculation, and the dict
JobListing(job_id, limit, min_score, done) ==
    [rows |-> done.rows, status |-> "success",
     matches |-> JobMatches(JobQuery(job_id, limit, min_score, done.rows)),
     count |-> done.count, logged |-> Logged(done.error),
     weights_used |-> WeightsFor(job_id)]

\* lines 37-138: the rows the call leaves in the table, the dict it returns and what it logs
JobResponse(job_id, limit, min_score, recalculate) ==
    IF store_fault = Down THEN ErrorResponse({"OperationalError"})
    ELSE IF job_id \notin Jobs THEN ErrorResponse({})
    ELSE IF ~TimezoneBound THEN ErrorResponse({"NameError"})
    ELSE JobListing(job_id, limit, min_score,
                    IF JobNeedsCalculation(job_id, recalculate, match_scores, now)
                    THEN _calculate_matches_for_job(job_id, match_scores, now)
                    ELSE [rows |-> match_scores, error |-> "", count |-> 0])

find_matches_for_job(job_id, limit, min_score, recalculate) ==
    \E response \in {JobResponse(job_id, limit, min_score, recalculate)} :
        /\ match_scores' = response.rows
        /\ last' = [Call("find_matches_for_job", job_id, recalculate, response.status,
                         response.matches, response.count, response.logged)
                        EXCEPT !.weights_used = response.weights_used]
        /\ UNCHANGED <<scoring, store_fault, callers, weights_rows, job_status, consultant_status, applications, now>>

\* lines 158-163: recalculate, or a row of the consultant older than 24 hours
ConsultantNeedsCalculation(c, recalculate, rows, t) ==
    \/ recalculate
    \/ \E r \in rows : r.consultant_id = c /\ r.last_calculated < t - StaleHours

\* lines 166-184
ConsultantQuery(c, limit, min_score, rows) ==
    LET existing_applications == {a[2] : a \in {x \in applications : x[1] = c}}
        scored == {r \in rows : r.consultant_id = c /\ RLe(min_score, r.total_score)}
        query == IF existing_applications # {}
                 THEN {r \in scored : r.job_id \notin existing_applications}
                 ELSE scored
        open_job_ids == OpenJobs
        opened == IF open_job_ids # {}
                  THEN {r \in query : r.job_id \in open_job_ids}
                  ELSE query
    IN  Take(OrderDesc(opened), limit)

\* lines 187-219
ConsultantMatches(scores) ==
    [i \in 1..Len(scores) |-> [id |-> scores[i].job_id, total |-> scores[i].total_score]]

\* lines 165-229: the query on the rows as they are after the recalculation, and the dict
ConsultantListing(consultant_id, limit, min_score, done) ==
    [rows |-> done.rows, status |-> "success",
     matches |-> ConsultantMatches(ConsultantQuery(consultant_id, limit, min_score,
                                                   done.rows)),
     count |-> done.count, logged |-> Logged(done.error)]

\* lines 140-236: the rows the call leaves in the table, the dict it returns and what it logs
ConsultantResponse(consultant_id, limit, min_score, recalculate) ==
    IF store_fault = Down THEN ErrorResponse({"OperationalError"})
    ELSE IF consultant_id \notin Consultants THEN ErrorResponse({})
    ELSE IF ~TimezoneBound THEN ErrorResponse({"NameError"})
    ELSE ConsultantListing(consultant_id, limit, min_score,
             IF ConsultantNeedsCalculation(consultant_id, recalculate, match_scores, now)
             THEN _calculate_matches_for_consultant(consultant_id, match_scores, now)
             ELSE [rows |-> match_scores, error |-> "", count |-> 0])

find_jobs_for_consultant(consultant_id, limit, min_score, recalculate) ==
    \E response \in {ConsultantResponse(consultant_id, limit, min_score, recalculate)} :
        /\ match_scores' = response.rows
        /\ last' = Call("find_jobs_for_consultant", consultant_id, recalculate, response.status, response.matches,
                        response.count, response.logged)
        /\ UNCHANGED <<scoring, store_fault, callers, weights_rows, job_status, consultant_status, applications, now>>

----------------------------------------------------------------------------
(* get_matching_statistics *)

\* timedelta(days=1), in hours
DayHours == 24

\* db.session.query(func.avg(MatchScore.total_score)).scalar() or 0
RECURSIVE SumTotals(_)
SumTotals(rows) ==
    IF rows = {} THEN Zero
    ELSE LET r == CHOOSE x \in rows : TRUE
         IN  RAdd(r.total_score, SumTotals(rows \ {r}))

Average(rows) ==
    IF rows = {} THEN Zero ELSE RDiv(SumTotals(rows), <<Cardinality(rows), 1>>)

\* round(avg_score, 1): the nearest tenth, a tie going to the even one
RoundTenth(x) ==
    LET p == x[1] * 10
        q == x[2]
        f == p \div q
        twice == 2 * (p - f * q)
    IN  Rat(IF twice < q \/ (twice = q /\ f % 2 = 0) THEN f ELSE f + 1, 10)

HighScores(rows) == {r \in rows : RLt(<<75, 1>>, r.total_score)}
LowScores(rows) == {r \in rows : RLt(r.total_score, <<50, 1>>)}

\* lines 370-375: per job the number of its rows above 75, the highest count first
\* (equal counts by job id)
RECURSIVE CountDesc(_, _)
CountDesc(jobs, rows) ==
    IF jobs = {} THEN <<>>
    ELSE LET count(j) == Cardinality({r \in HighScores(rows) : r.job_id = j})
             top == CHOOSE j \in jobs : \A k \in jobs :
                        count(k) < count(j) \/ (count(k) = count(j) /\ j <= k)
         IN  <<[id |-> top, high_score_matches |-> count(top)]>>
                 \o CountDesc(jobs \ {top}, rows)

\* lines 370-385: .limit(5), and one entry per job that Job.query.get finds
TopJobs(rows) ==
    LET listed == Take(CountDesc({r.job_id : r \in HighScores(rows)}, rows), 5)
    IN  SelectSeq(listed, LAMBDA e : e.id \in Jobs)

\* lines 353-396
Statistics(rows, t) ==
    [total_matches |-> Cardinality(rows),
     recent_matches |-> Cardinality({r \in rows : r.last_calculated >= t - DayHours}),
     average_score |-> RoundTenth(Average(rows)),
     high_score_matches |-> Cardinality(HighScores(rows)),
     low_score_matches |-> Cardinality(LowScores(rows)),
     top_matching_jobs |-> TopJobs(rows)]

\* the call without the except clause of lines 399-404: what line 357 raises reaches
\* the caller
StatisticsRaises ==
    [status |-> "raised", statistics |-> NoStatistics, logged |-> {}]

\* lines 345-404: the status of the dict, its statistics and what is logged
StatisticsResponse ==
    IF store_fault = Down
    THEN [status |-> "error", statistics |-> NoStatistics, logged |-> {"OperationalError"}]
    ELSE IF ~TimezoneBound
    THEN [status |-> "error", statistics |-> NoStatistics, logged |-> {"NameError"}]
    ELSE [status |-> "success", statistics |-> Statistics(match_scores, now), logged |-> {}]

\* the call with the loop of lines 257-262 run before the counts are taken
StatisticsAfterRecalculation ==
    \E response \in {StatisticsResponse} :
        /\ match_scores' = RecalculateLoop(Ascending(OpenJobs),
                               [rows |-> match_scores, count |-> 0, logged |-> {}], now).rows
        /\ last' = [Call("get_matching_statistics", 0, FALSE, response.status, <<>>, 0,
                         response.logged) EXCEPT !.statistics = response.statistics]
        /\ UNCHANGED <<scoring, store_fault, callers, weights_rows, job_status, consultant_status,
                       applications, now>>

get_matching_statistics ==
    \E response \in {StatisticsResponse} :
        /\ last' = [Call("get_matching_statistics", 0, FALSE, response.status, <<>>, 0,
                         response.logged) EXCEPT !.statistics = response.statistics]
        /\ UNCHANGED <<scoring, store_fault, callers, weights_rows, match_scores, job_status,
                       consultant_status, applications, now>>

----------------------------------------------------------------------------
(* recalculate_all_matches run by concurrent callers, one database session each.
   A caller's steps are the statements of lines 238-274 and 406-489 that touch the
   database: the job query, the weights and consultant queries of one job, the lookup
   of one pair, the commit of one job.  A session sees what is committed and what it
   has added itself.  The key of the table is checked when the pending rows reach the
   database, which is modelled at the commit (an earlier flush ends in the same
   rollback). *)

Callers == {1, 2}

IdleCaller ==
    [pc |-> "idle", jobs |-> <<>>, todo |-> <<>>, weights |-> NoRow, pending |-> {},
     count |-> 0, logged |-> {}, scored |-> {}]

\* db.session.rollback(), the error logged, 0 returned for the job: on to the next job
RolledBack(k, error) ==
    [callers[k] EXCEPT !.pc = "jobs", !.jobs = Tail(@), !.todo = <<>>, !.pending = {},
                       !.logged = @ \cup {error}]

\* the committed table with the pending rows of a session written: a pending row with an
\* id replaces the row of that id, the others get the next ids
RECURSIVE Written(_, _)
Written(rows, pending) ==
    IF pending = {} THEN rows
    ELSE LET r == CHOOSE x \in pending : \A y \in pending :
                      x.consultant_id <= y.consultant_id
         IN  IF r.id # 0
             THEN Written({q \in rows : q.id # r.id} \cup {r}, pending \ {r})
             ELSE Written(rows \cup {[r EXCEPT !.id = Cardinality(rows) + 1]}, pending \ {r})

\* lines 244-250: Job.query.filter_by(status='open').all(); each caller makes one call
StartRecalculate(k) ==
    /\ callers[k].pc = "idle"
    /\ callers' = [callers EXCEPT ![k].pc = "jobs", ![k].jobs = Ascending(OpenJobs)]
    /\ UNCHANGED <<scoring, store_fault, weights_rows, match_scores, job_status, consultant_status, applications,
                   now, last>>

\* lines 257-260 and 417-422: the weights of the job and the active consultants
BeginJob(k) ==
    /\ callers[k].pc = "jobs" /\ callers[k].jobs # <<>>
    /\ callers' = [callers EXCEPT ![k].pc = "pairs",
                                  ![k].weights = WeightsFor(Head(callers[k].jobs)),
                                  ![k].todo = Ascending(ActiveConsultants),
                                  ![k].pending = {}]
    /\ UNCHANGED <<scoring, store_fault, weights_rows, match_scores, job_status, consultant_status, applications,
                   now, last>>

\* lines 426-478: one consultant of the job; scored keeps every row the caller has
\* computed, as written (without an id)
ScorePair(k) ==
    /\ callers[k].pc = "pairs" /\ callers[k].todo # <<>>
    /\ \E c \in {Head(callers[k].todo)}, j \in {Head(callers[k].jobs)} :
         \E row \in {NewMatchScore(0, c, j, PairScores(c, j, callers[k].weights), now)},
            found \in {LookupMatch(match_scores \cup callers[k].pending, c, j)} :
             callers' =
                 [callers EXCEPT ![k] =
                     IF found # {}
                     THEN IF ~TimezoneBound
                          THEN [RolledBack(k, "NameError") EXCEPT !.scored = @ \cup {row}]
                          ELSE [@ EXCEPT !.todo = Tail(@),
                                         !.scored = @ \cup {row},
                                         !.pending = (@ \ found) \cup
                                             {[row EXCEPT !.id = First(found).id]}]
                     ELSE [@ EXCEPT !.todo = Tail(@),
                                    !.scored = @ \cup {row},
                                    !.pending = @ \cup {row}]]
    /\ UNCHANGED <<scoring, store_fault, weights_rows, match_scores, job_status, consultant_status, applications,
                   now, last>>

\* lines 480-489: db.session.commit(), or the rollback when the key refuses a row
CommitJob(k) ==
    /\ callers[k].pc = "pairs" /\ callers[k].todo = <<>>
    /\ IF \E r \in callers[k].pending :
              r.id = 0 /\ ~UniquePairKey(match_scores, r.consultant_id, r.job_id)
       THEN /\ callers' = [callers EXCEPT ![k] = RolledBack(k, "IntegrityError")]
            /\ UNCHANGED match_scores
       ELSE /\ match_scores' = Written(match_scores, callers[k].pending)
            /\ callers' = [callers EXCEPT ![k].pc = "jobs", ![k].jobs = Tail(@),
                                          ![k].count = @ + Cardinality(callers[k].pending),
                                          ![k].pending = {}]
    /\ UNCHANGED <<scoring, store_fault, weights_rows, job_status, consultant_status, applications, now, last>>

\* lines 264-268: the dict with status 'success'
ReturnRecalculate(k) ==
    /\ callers[k].pc = "jobs" /\ callers[k].jobs = <<>>
    /\ callers' = [callers EXCEPT ![k].pc = "done"]
    /\ UNCHANGED <<scoring, store_fault, weights_rows, match_scores, job_status, consultant_status, applications,
                   now, last>>

----------------------------------------------------------------------------
(* The clock and the HR side, which owns jobs, consultants and applications *)

Tick ==
    /\ now + TickHours <= MaxTime
    /\ now' = now + TickHours
    /\ last' = NoCall
    /\ UNCHANGED <<scoring, store_fault, callers, weights_rows, match_scores, job_status, consultant_status, applications>>

CloseJob(j) ==
    /\ job_status[j] = "open"
    /\ job_status' = [job_status EXCEPT ![j] = "closed"]
    /\ last' = NoCall
    /\ UNCHANGED <<scoring, store_fault, callers, weights_rows, match_scores, consultant_status, applications, now>>

DeactivateConsultant(c) ==
    /\ consultant_status[c] = "active"
    /\ consultant_status' = [consultant_status EXCEPT ![c] = "inactive"]
    /\ last' = NoCall
    /\ UNCHANGED <<scoring, store_fault, callers, weights_rows, match_scores, job_status, applications, now>>

\* the database starts or stops failing
StoreFault(fault) ==
    /\ store_fault # fault
    /\ store_fault' = fault
    /\ last' = NoCall
    /\ UNCHANGED <<scoring, callers, weights_rows, match_scores, job_status,
                   consultant_status, applications, now>>

Apply(c, j) ==
    /\ <<c, j>> \notin applications
    /\ applications' = applications \cup {<<c, j>>}
    /\ last' = NoCall
    /\ UNCHANGED <<scoring, store_fault, callers, weights_rows, match_scores, job_status, consultant_status, now>>

----------------------------------------------------------------------------
(* The program *)

\* `last` before any call
NoCallYet ==
    [op |-> "none", id |-> 0, recalculate |-> FALSE, status |-> "none", matches |-> <<>>,
     count |-> 0, logged |-> {}, at |-> 0, repeat |-> FALSE, statistics |-> NoStatistics,
     weights_used |-> NoRow,
     prev_id |-> 0, prev_at |-> 0]

Init ==
    /\ weights_rows = [s \in Scopes |-> IF s = NoClient THEN DefaultGlobalWeights ELSE NoRow]
    /\ match_scores = {}
    /\ job_status = [j \in Jobs |-> "open"]
    /\ consultant_status = [c \in Consultants |-> "active"]
    /\ applications = {}
    /\ now = 0
    /\ callers = [k \in Callers |-> IdleCaller]
    /\ store_fault = NoFault
    /\ scoring = NoScoring
    /\ last = [op |-> "none", id |-> 0, recalculate |-> FALSE, status |-> "none", matches |-> <<>>, count |-> 0,
               logged |-> {}, at |-> 0, repeat |-> FALSE,
               statistics |-> NoStatistics, weights_used |-> NoRow, prev_id |-> 0, prev_at |-> 0]

UpdateWeights == \E u \in MainUpdates : update_matching_weights(u[1], u[2])
RecalculateAll == recalculate_all_matches
FindMatches ==
    \E job_id \in JobIdInputs, limit \in LimitInputs, min_score \in MinScoreInputs,
       recalculate \in BOOLEAN : find_matches_for_job(job_id, limit, min_score, recalculate)
FindJobs ==
    \E consultant_id \in ConsultantIdInputs, limit \in LimitInputs,
       min_score \in MinScoreInputs, recalculate \in BOOLEAN :
        find_jobs_for_consultant(consultant_id, limit, min_score, recalculate)
HumanResources ==
    \/ \E j \in Jobs : CloseJob(j)
    \/ DeactivateConsultant(2)
    \/ Apply(1, 1)

GetStatistics == get_matching_statistics

Next ==
    \/ UpdateWeights \/ RecalculateAll \/ FindMatches \/ FindJobs \/ GetStatistics
    \/ Tick \/ HumanResources

Spec == Init /\ [][Next]_vars

\* stored weight rows the weight store is started from: the defaults, the rows the
\* scenario and the all-ones weights_data leave behind, and no client row
StartGlobalWeights ==
    {DefaultGlobalWeights, WeightsRow(1, <<20, 41>>, <<10, 41>>, <<10, 41>>, <<1, 41>>)}

StartClientWeights == {NoRow, WeightsRow(2, <<1, 4>>, <<1, 4>>, <<1, 4>>, <<1, 4>>)}

InitWeights ==
    /\ weights_rows \in {[s \in Scopes |-> IF s = NoClient THEN g ELSE c] :
                            g \in StartGlobalWeights, c \in StartClientWeights}
    /\ match_scores = {}
    /\ job_status = [j \in Jobs |-> "open"]
    /\ consultant_status = [c \in Consultants |-> "active"]
    /\ applications = {}
    /\ now = 0
    /\ callers = [k \in Callers |-> IdleCaller]
    /\ store_fault = NoFault
    /\ scoring = NoScoring
    /\ last = [op |-> "none", id |-> 0, recalculate |-> FALSE, status |-> "none",
               matches |-> <<>>, count |-> 0, logged |-> {}, at |-> 0, repeat |-> FALSE,
               statistics |-> NoStatistics, weights_used |-> NoRow,
               prev_id |-> 0, prev_at |-> 0]

\* one update_matching_weights call, with any weights_data of Payloads, on either scope
NextWeights ==
    /\ last.op = "none"
    /\ \E data \in Payloads, client \in Scopes : update_matching_weights(data, client)

SpecWeights == InitWeights /\ [][NextWeights]_vars

\* concurrent recalculate_all_matches callers, with weight updates in between
Recalculating ==
    \E k \in Callers : \/ StartRecalculate(k) \/ BeginJob(k) \/ ScorePair(k)
                       \/ CommitJob(k) \/ ReturnRecalculate(k)

NextRace == Recalculating \/ UpdateWeights

SpecRace == Init /\ [][NextRace]_vars

\* the recomputations and the reads over stored weights with and without a client row
NextClient == RecalculateAll \/ FindMatches \/ FindJobs \/ Tick \/ HumanResources

SpecClient == InitWeights /\ [][NextClient]_vars

\* one call of a component scorer on drawn inputs
InitScorers ==
    /\ weights_rows = [s \in Scopes |-> IF s = NoClient THEN DefaultGlobalWeights ELSE NoRow]
    /\ match_scores = {}
    /\ job_status = [j \in Jobs |-> "open"]
    /\ consultant_status = [c \in Consultants |-> "active"]
    /\ applications = {}
    /\ now = 0
    /\ callers = [k \in Callers |-> IdleCaller]
    /\ store_fault = NoFault
    /\ last = NoCallYet
    /\ scoring \in ScoringInputs

NextScorers == ScoreSkill \/ ScoreExperience \/ ScoreRate \/ ScoreLocation

SpecScorers == InitScorers /\ [][NextScorers]_vars

\* the five operations on a database that may fail
StoreFaults == {NoFault, Down} \cup {CommitFault(j) : j \in Jobs}

Failing == \E fault \in StoreFaults : StoreFault(fault)

NextFault ==
    \/ UpdateWeights \/ RecalculateAll \/ FindMatches \/ FindJobs \/ GetStatistics
    \/ Tick \/ Failing

SpecFault == Init /\ [][NextFault]_vars

----------------------------------------------------------------------------
(* Claims *)

StoredWeights == {weights_rows[s] : s \in {x \in Scopes : weights_rows[x].id # 0}}

\* C1: after any update_matching_weights call the four weights of every stored
\* weight row sum to 1
C1_WeightsSumToOne ==
    last.op = "update_matching_weights" => \A w \in StoredWeights : WeightTotal(w) = One

InRange(x) == RLe(Zero, x) /\ RLe(x, <<100, 1>>)

\* C2: every MatchScore row has its total and its four component scores in [0, 100]
C2_ScoresInRange ==
    \A r \in match_scores :
        /\ InRange(r.total_score)
        /\ InRange(r.skill_score) /\ InRange(r.experience_score)
        /\ InRange(r.rate_score) /\ InRange(r.location_score)

C6_RecomputesExactlyWhenNeeded ==
    [][(last'.op = "find_matches_for_job" /\ last'.id \in Jobs)
        => LET rows == {r \in match_scores : r.job_id = last'.id}
               needed == \/ last'.recalculate
                         \/ rows = {}
                         \/ \A r \in rows : r.last_calculated < now - StaleHours
           IN  IF needed
               THEN \A c \in ActiveConsultants :
                        \E r \in match_scores' : /\ r.consultant_id = c /\ r.job_id = last'.id
                                                 /\ r.last_calculated = now
               ELSE match_scores' = match_scores]_vars

\* C7: the first find_jobs_for_consultant call with recalculate=False for a consultant
\* without any row creates the rows of that consultant for every open job
C7_FirstCallCreatesRows ==
    [][(/\ last'.op = "find_jobs_for_consultant" /\ last'.id \in Consultants
        /\ ~last'.recalculate
        /\ ~ \E r \in match_scores : r.consultant_id = last'.id)
        => \A j \in OpenJobs :
               \E r \in match_scores' : r.consultant_id = last'.id /\ r.job_id = j]_vars

IsTopListing(matches, eligible, limit) ==
    /\ Len(matches) = IF Cardinality(eligible) < limit THEN Cardinality(eligible) ELSE limit
    /\ \A i \in DOMAIN matches : matches[i] \in eligible
    /\ \A i, k \in DOMAIN matches : i < k => RLe(matches[k].total, matches[i].total)
    /\ \A e \in eligible :
           \/ \E i \in DOMAIN matches : matches[i] = e
           \/ \A i \in DOMAIN matches : RLe(e.total, matches[i].total)

\* C10: what find_matches_for_job returns is exactly the first `limit` entries, by
\* non-increasing total score, of the rows of the job whose consultant has not applied
\* and whose total is at least min_score
C10_ListingIsTopLimit ==
    [][/\ \A j \in Jobs, limit \in LimitInputs, min_score \in MinScoreInputs,
             recalculate \in BOOLEAN :
              find_matches_for_job(j, limit, min_score, recalculate)
                  => IsTopListing(last'.matches,
                                  {[id |-> r.consultant_id, total |-> r.total_score] :
                                      r \in {x \in match_scores' :
                                          /\ x.job_id = j
                                          /\ <<x.consultant_id, j>> \notin applications
                                          /\ RLe(min_score, x.total_score)}},
                                  limit)]_vars

\* C11: a find_matches_for_job / find_jobs_for_consultant call on an existing id returns
\* only rows that are not older than 24 hours, and every row of the job (consultant) that
\* was older than 24 hours, for an active consultant (open job), is recomputed by the call
C11_ReadRefreshesStaleRows ==
    [][/\ (last'.op = "find_matches_for_job" /\ last'.id \in Jobs)
           => /\ \A i \in DOMAIN last'.matches :
                     \E r \in match_scores' :
                         /\ r.job_id = last'.id /\ r.consultant_id = last'.matches[i].id
                         /\ r.last_calculated >= now - StaleHours
              /\ \A r \in match_scores :
                     (/\ r.job_id = last'.id /\ r.consultant_id \in ActiveConsultants
                      /\ r.last_calculated < now - StaleHours)
                         => \E q \in match_scores' : q.id = r.id /\ q.last_calculated = now
       /\ (last'.op = "find_jobs_for_consultant" /\ last'.id \in Consultants)
           => /\ \A i \in DOMAIN last'.matches :
                     \E r \in match_scores' :
                         /\ r.consultant_id = last'.id /\ r.job_id = last'.matches[i].id
                         /\ r.last_calculated >= now - StaleHours
              /\ \A r \in match_scores :
                     (/\ r.consultant_id = last'.id /\ r.job_id \in OpenJobs
                      /\ r.last_calculated < now - StaleHours)
                         => \E q \in match_scores' : q.id = r.id /\ q.last_calculated = now]_vars

\* C12: an update_matching_weights call with numeric, non-negative values returns
\* 'success' and leaves a row for its scope, also when the scope had none; when the
\* values (a provided field overwrites, an omitted one keeps the stored value) have a
\* positive sum, the row holds each of them divided by that sum
C12_PartialUpdateNormalizes ==
    [][\A data \in Payloads, client \in Scopes :
          (/\ update_matching_weights(data, client)
           /\ \A f \in DOMAIN data : data[f][2] # 0 /\ data[f][1] >= 0)
              => LET value(f) == IF f \in DOMAIN data THEN data[f] ELSE weights_rows[client][f]
                     sum == RAdd(RAdd(value("skill_weight"), value("experience_weight")),
                                 RAdd(value("rate_weight"), value("location_weight")))
                 IN  /\ last'.status = "success"
                     /\ weights_rows'[client].id # 0
                     /\ ((\A f \in Fields : value(f)[2] # 0) /\ sum[1] > 0)
                            => \A f \in Fields : weights_rows'[client][f] = RDiv(value(f), sum)]_vars

\* C13: an update_matching_weights call whose weights_data holds a value that is not a
\* number or is negative returns 'error' and leaves every stored weight row as it was,
\* and no stored weight is negative after any call
C13_MalformedWeightsRejected ==
    [][\A data \in Payloads, client \in Scopes :
          update_matching_weights(data, client)
              => /\ (\E f \in DOMAIN data : data[f][2] = 0 \/ data[f][1] < 0)
                        => last'.status = "error" /\ weights_rows' = weights_rows
                 /\ \A s \in Scopes, f \in Fields : weights_rows'[s][f][1] >= 0]_vars

\* C14: when the database fails during find_matches_for_job, find_jobs_for_consultant
\* or recalculate_all_matches, the call returns 'error' and the MatchScore table is as
\* it was before the call
C14_FailedRecomputationAborts ==
    [][(/\ last'.op \in {"find_matches_for_job", "find_jobs_for_consultant",
                         "recalculate_all_matches"}
        /\ "OperationalError" \in last'.logged)
           => last'.status = "error" /\ match_scores' = match_scores]_vars

\* C15: a find_matches_for_job / find_jobs_for_consultant call with an id that does not
\* exist returns 'error' with the not-found message (nothing is raised or logged), and
\* every MatchScore row and every weight row is as it was before the call
C15_UnknownIdChangesNothing ==
    [][(\/ last'.op = "find_matches_for_job" /\ last'.id \notin Jobs
        \/ last'.op = "find_jobs_for_consultant" /\ last'.id \notin Consultants)
           => /\ last'.status = "error" /\ last'.logged = {} /\ last'.matches = <<>>
              /\ match_scores' = match_scores /\ weights_rows' = weights_rows]_vars

\* C15 witness: find_matches_for_job has returned for a job id that does not exist,
\* while the table holds rows
C15_CalledWithUnknownJob ==
    /\ last.op = "find_matches_for_job" /\ last.id \notin Jobs
    /\ match_scores # {}

\* C16: whatever the input and whatever the database does, each of the five public
\* operations returns a dict whose status is 'success' or 'error'
C16_StatusIsSuccessOrError ==
    last.op \in {"find_matches_for_job", "find_jobs_for_consultant", "recalculate_all_matches",
                 "update_matching_weights", "get_matching_statistics"}
        => last.status \in {"success", "error"}

\* C16 witness: an operation has returned while the database was failing, with the
\* exception in its log
C16_ReturnedFromFailingStore ==
    /\ last.op = "update_matching_weights"
    /\ store_fault = Down /\ "OperationalError" \in last.logged

\* C17: every row a find_matches_for_job, find_jobs_for_consultant or
\* recalculate_all_matches call writes has as its total its four component scores
\* weighted by the weight row of the client of its job when that row exists, and by
\* the global weight row otherwise
C17_TotalUsesWeightsOfJobClient ==
    [][last'.op \in {"find_matches_for_job", "find_jobs_for_consultant",
                     "recalculate_all_matches"}
          => \A r \in match_scores' \ match_scores :
                 LET client == IF r.job_id = 1 THEN 1 ELSE NoClient
                     w == IF weights_rows[client].id # 0 THEN weights_rows[client]
                          ELSE weights_rows[NoClient]
                 IN  r.total_score =
                         RAdd(RAdd(RMul(r.skill_score, w.skill_weight),
                                   RMul(r.experience_score, w.experience_weight)),
                              RAdd(RMul(r.rate_score, w.rate_weight),
                                   RMul(r.location_score, w.location_weight)))]_vars

\* C17 witness: recalculate_all_matches has written a row of the job of client 1 and a
\* row of the job without a client, while client 1 has a weight row of its own
C17_RecalculatedWithClientWeights ==
    /\ last.op = "recalculate_all_matches" /\ weights_rows[1].id # 0
    /\ weights_rows[1] # [weights_rows[NoClient] EXCEPT !.id = weights_rows[1].id]
    /\ \E r, q \in match_scores : /\ r.job_id = 1 /\ q.job_id = 2
                                  /\ r.last_calculated = last.at /\ q.last_calculated = last.at
                                  /\ r.total_score # Zero

\* C18: after recalculate_all_matches has returned 'success', every (open job, active
\* consultant) pair has exactly one row, written by this call (its last_calculated is
\* the time of the call), and the count the call reports is the number of those pairs
C18_RecalculateWritesEveryPair ==
    (last.op = "recalculate_all_matches" /\ last.status = "success")
        => /\ \A j \in OpenJobs, c \in ActiveConsultants :
                  /\ Cardinality({r \in match_scores :
                                      r.job_id = j /\ r.consultant_id = c}) = 1
                  /\ \A r \in match_scores :
                         (r.job_id = j /\ r.consultant_id = c) => r.last_calculated = last.at
           /\ last.count = Cardinality(OpenJobs) * Cardinality(ActiveConsultants)

\* C19: no operation of the engine changes a job, a consultant or an application, and
\* get_matching_statistics changes no MatchScore row and no weight row either
C19_EngineLeavesHumanResourcesData ==
    [][/\ last'.op # "none"
           => /\ job_status' = job_status /\ consultant_status' = consultant_status
              /\ applications' = applications
       /\ last'.op = "get_matching_statistics"
           => match_scores' = match_scores /\ weights_rows' = weights_rows]_vars

\* C19 witness: get_matching_statistics has returned while the table held rows, a job
\* was closed and an application existed
C19_StatisticsOverRows ==
    /\ last.op = "get_matching_statistics"
    /\ match_scores # {} /\ applications # {} /\ OpenJobs # Jobs

\* C20: get_matching_statistics returns 'success' with the number of MatchScore rows,
\* the number of rows calculated in the last 24 hours, the number of rows with a total
\* above 75, the number with a total below 50, and at most 5 jobs in non-increasing order
\* of their number of rows above 75; the last two counts together do not exceed the first
C20_StatisticsCountRows ==
    last.op = "get_matching_statistics"
        => LET s == last.statistics
               above(j) == Cardinality({r \in match_scores :
                               r.job_id = j /\ RLt(<<75, 1>>, r.total_score)})
           IN  /\ last.status = "success"
               /\ s.total_matches = Cardinality(match_scores)
               /\ s.recent_matches =
                      Cardinality({r \in match_scores : r.last_calculated >= now - 24})
               /\ s.high_score_matches =
                      Cardinality({r \in match_scores : RLt(<<75, 1>>, r.total_score)})
               /\ s.low_score_matches =
                      Cardinality({r \in match_scores : RLt(r.total_score, <<50, 1>>)})
               /\ s.high_score_matches + s.low_score_matches <= s.total_matches
               /\ Len(s.top_matching_jobs) <= 5
               /\ \A i \in DOMAIN s.top_matching_jobs :
                      /\ s.top_matching_jobs[i].high_score_matches = above(s.top_matching_jobs[i].id)
                      /\ \A k \in DOMAIN s.top_matching_jobs :
                             i < k => s.top_matching_jobs[k].high_score_matches
                                          <= s.top_matching_jobs[i].high_score_matches

\* the rows of job 1 a step writes for consultants 1 and 2 under the default weights
\* (the end-to-end scenario: job 1 asks for A, required, importance 5, and B, importance
\* 2; consultant 1 holds A at level 5 with 3 years, consultant 2 holds nothing)
ScenarioRows(r1, r2) ==
    /\ last'.op = "recalculate_all_matches"
    /\ weights_rows[NoClient] = DefaultGlobalWeights /\ weights_rows[1].id = 0
    /\ r1 \in match_scores' \ match_scores /\ r1.job_id = 1 /\ r1.consultant_id = 1
    /\ r2 \in match_scores' \ match_scores /\ r2.job_id = 1 /\ r2.consultant_id = 2

\* consultant 2's skill score before any penalty, on the 0-100 scale
ScenarioBaseline ==
    RMul(SkillSum(ConsultantSkillRows(2), JobSkills(1), TotalImportance(1)), <<100, 1>>)

\* C21 (as amended): in the end-to-end scenario consultant 1's total exceeds consultant
\* 2's, and consultant 2's skill score is 0, the same as its baseline without the
\* penalty, the penalty being taken up by the floor at 0
C21_ScenarioRanksHolderFirst ==
    [][\A r1, r2 \in match_scores' :
          ScenarioRows(r1, r2)
              => /\ RLt(r2.total_score, r1.total_score)
                 /\ r2.skill_score = Zero /\ ScenarioBaseline = Zero]_vars

\* C21 (as stated): in the end-to-end scenario consultant 1's total exceeds consultant
\* 2's, and consultant 2's skill score is lower than it would be without the penalty
C21_ScenarioPenaltyLowersScore ==
    [][\A r1, r2 \in match_scores' :
          ScenarioRows(r1, r2)
              => /\ RLt(r2.total_score, r1.total_score)
                 /\ RLt(r2.skill_score, ScenarioBaseline)]_vars

\* C21 witness: recalculate_all_matches has written the rows of the scenario under the
\* default weights
C21_ScenarioComputed ==
    /\ last.op = "recalculate_all_matches" /\ last.count = 4
    /\ weights_rows[NoClient] = DefaultGlobalWeights /\ weights_rows[1].id = 0
    /\ \E r1, r2 \in match_scores : /\ r1.job_id = 1 /\ r1.consultant_id = 1
                                    /\ r2.job_id = 1 /\ r2.consultant_id = 2
                                    /\ RLt(r2.total_score, r1.total_score)

\* the consultant of the scored call without skill s
Without(cskills, s) == [x \in DOMAIN cskills \ {s} |-> cskills[x]]

\* the skill score before the floor at 0 of a consultant with skills cskills, for the
\* job of the scored call
BeforeFloor(cskills) ==
    SkillMatchUnfloored(cskills, JobSkillsOf(scoring.job_skill_rows),
                        TotalImportanceOf(scoring.job_skill_rows))

\* C22 (as amended): when a consultant holds every skill the job flags is_required, the
\* same consultant without one of those required skills scores, before the floor at 0,
\* at least 0.3 lower
C22_MissingRequiredCostsPenalty ==
    (scoring.fn = "skill" /\ scoring.done
     /\ ~MissingRequired(scoring.consultant_skills, JobSkillsOf(scoring.job_skill_rows)))
        => \A s \in DOMAIN scoring.consultant_skills \cap DOMAIN scoring.job_skill_rows :
               scoring.job_skill_rows[s].required
                   => /\ scoring.result = BeforeFloor(scoring.consultant_skills)
                      /\ RLe(BeforeFloor(Without(scoring.consultant_skills, s)),
                             RSub(scoring.result, <<3, 10>>))

\* C22 (as stated): a consultant that holds a skill the job flags is_required and the
\* same consultant without that skill differ, before the floor at 0, by at least 0.3,
\* whatever the job's skills and the other skills the two share
C22_AnyMissingRequiredCostsPenalty ==
    (scoring.fn = "skill" /\ scoring.done)
        => \A s \in DOMAIN scoring.consultant_skills \cap DOMAIN scoring.job_skill_rows :
               scoring.job_skill_rows[s].required
                   => RLe(BeforeFloor(Without(scoring.consultant_skills, s)),
                          RSub(BeforeFloor(scoring.consultant_skills), <<3, 10>>))

\* C22 witness: the scorer has been applied to a consultant that holds the two skills
\* a job requires, the job asking for a third one that is not required
C22_HolderScored ==
    /\ scoring.fn = "skill" /\ scoring.done
    /\ DOMAIN scoring.consultant_skills = {"A", "B"}
    /\ DOMAIN scoring.job_skill_rows = SkillIds
    /\ \A s \in SkillIds : scoring.job_skill_rows[s].required = (s # "C")

\* the score C23 describes for the scored call, a NULL level or importance taken as 3
DescribedSkillScore ==
    LET rows == scoring.job_skill_rows
        held == scoring.consultant_skills
        importance(s) == IF rows[s].importance = 0 THEN 3 ELSE rows[s].importance
        level(s) == IF held[s].level = 0 THEN 3 ELSE held[s].level
        of(s) == IF s \in DOMAIN rows THEN importance(s) ELSE 0
        total == of("A") + of("B") + of("C")
        part(s) == IF s \in DOMAIN rows \cap DOMAIN held
                   THEN Rat(level(s) * importance(s), 5 * total) ELSE Zero
        sum == RAdd(part("A"), RAdd(part("B"), part("C")))
        absent == {s \in DOMAIN rows : rows[s].required /\ s \notin DOMAIN held}
        penalised == IF absent # {} THEN RSub(sum, <<3, 10>>) ELSE sum
    IN  IF DOMAIN rows = {} THEN Half ELSE RMin(One, RMax(Zero, penalised))

\* C23: the skill score is 0.5 for a job without skills, and otherwise the sum over the
\* held skills of the job of (level/5) * (importance / total importance), less 0.3 once
\* when any required skill is absent, floored at 0 and capped at 1; it is within [0, 1]
C23_SkillScoreAsDescribed ==
    (scoring.fn = "skill" /\ scoring.done)
        => /\ scoring.result = DescribedSkillScore
           /\ RLe(Zero, scoring.result) /\ RLe(scoring.result, One)

\* C23 witness: the scorer has been applied to a consultant that holds one skill of the
\* job and lacks two required ones, and the score is above 0 after the one penalty
C23_TwoRequiredMissing ==
    /\ scoring.fn = "skill" /\ scoring.done
    /\ DOMAIN scoring.job_skill_rows = SkillIds
    /\ DOMAIN scoring.consultant_skills = {"C"}
    /\ scoring.job_skill_rows["A"].required /\ scoring.job_skill_rows["B"].required
    /\ RLt(Zero, scoring.result)

\* the total of row r is its four stored component scores weighted by w
WeightedTotal(r, w) ==
    r.total_score = RAdd(RAdd(RMul(r.skill_score, w.skill_weight),
                              RMul(r.experience_score, w.experience_weight)),
                         RAdd(RMul(r.rate_score, w.rate_weight),
                              RMul(r.location_score, w.location_weight)))

\* C24: a step leaves a MatchScore row as it was or writes all five scores of it
\* together: the four component results of its pair times 100, and as total those four
\* weighted by the weight row in force for the client of the job when the step is made
C24_RowWrittenAsAWhole ==
    [][\A r \in match_scores' :
          \/ r \in match_scores
          \/ /\ r.skill_score = RMul(ComponentScores[r.consultant_id][r.job_id].skill, <<100, 1>>)
             /\ r.experience_score =
                    RMul(ComponentScores[r.consultant_id][r.job_id].experience, <<100, 1>>)
             /\ r.rate_score = RMul(ComponentScores[r.consultant_id][r.job_id].rate, <<100, 1>>)
             /\ r.location_score =
                    RMul(ComponentScores[r.consultant_id][r.job_id].location, <<100, 1>>)
             /\ WeightedTotal(r, IF weights_rows[JobClient(r.job_id)].id # 0
                                 THEN weights_rows[JobClient(r.job_id)]
                                 ELSE weights_rows[NoClient])]_vars

\* C24 witness: the weights have been updated after a row was computed, so that the
\* total of the row is no longer the one the weights now in force would give
C24_RowOlderThanWeights ==
    /\ last.op = "update_matching_weights" /\ last.status = "success"
    /\ \E r \in match_scores : ~WeightedTotal(r, weights_rows[NoClient])

\* the rate score C25 describes for three values that are all present
DescribedRateScore(rate, rate_min, rate_max) ==
    IF rate_min <= rate /\ rate <= rate_max THEN One
    ELSE IF rate < rate_min THEN RMax(Zero, RSub(One, Rat(rate_min - rate, rate_min)))
    ELSE RMax(Zero, RSub(One, Rat(rate - rate_max, rate_max)))

\* C25 (as amended): the rate score is 0.5 when any of the three values is missing or
\* zero; otherwise it is 1 exactly when rate_min <= rate <= rate_max, below the range
\* max(0, 1 - (rate_min - rate)/rate_min), above it max(0, 1 - (rate - rate_max)/rate_max),
\* so that a rate of 2*rate_max scores at most 0.5; it is always within [0, 1]
C25_RateScoreZeroIsMissing ==
    (scoring.fn = "rate" /\ scoring.done)
        => /\ RLe(Zero, scoring.result) /\ RLe(scoring.result, One)
           /\ IF \E x \in {scoring.hourly_rate, scoring.rate_min, scoring.rate_max} :
                     x = Missing \/ x = 0
              THEN scoring.result = Half
              ELSE /\ scoring.result
                          = DescribedRateScore(scoring.hourly_rate, scoring.rate_min, scoring.rate_max)
                   /\ scoring.result = One
                          <=> (scoring.rate_min <= scoring.hourly_rate
                               /\ scoring.hourly_rate <= scoring.rate_max)
                   /\ scoring.hourly_rate = 2 * scoring.rate_max => RLe(scoring.result, Half)

\* C25 (as stated): the rate score is 0.5 when any of the three values is missing;
\* otherwise it is 1 exactly when rate_min <= rate <= rate_max
C25_RateScoreInRangeIsOne ==
    (scoring.fn = "rate" /\ scoring.done)
        => IF Missing \in {scoring.hourly_rate, scoring.rate_min, scoring.rate_max}
           THEN scoring.result = Half
           ELSE scoring.result = One
                    <=> (scoring.rate_min <= scoring.hourly_rate
                         /\ scoring.hourly_rate <= scoring.rate_max)

\* C25 witness: the scorer has been applied to a rate of twice rate_max
C25_TwiceRateMaxScored ==
    /\ scoring.fn = "rate" /\ scoring.done
    /\ scoring.rate_min = 50 /\ scoring.rate_max = 100 /\ scoring.hourly_rate = 200

\* the location score C26 describes for locations a and b, whose last comma-separated
\* segments are sa and sb
DescribedLocationScore(a, b, sa, sb) ==
    IF a = <<>> \/ b = <<>> THEN Half
    ELSE IF Lower(a) = Lower(b) THEN One
    ELSE IF HasComma(a) /\ HasComma(b) /\ sa = sb THEN <<4, 5>>
    ELSE <<1, 5>>

\* C26 (as amended): the location score is 0.5 when either location is blank, 1.0 when
\* the two are equal ignoring case, 0.8 when they differ, both hold a comma and their
\* last comma-separated segments are equal ignoring case and surrounding blanks, and 0.2
\* otherwise; it is the same with the two locations exchanged
C26_LocationScoreTrimsSegments ==
    (scoring.fn = "location" /\ scoring.done)
        => /\ scoring.result \in {Half, One, <<4, 5>>, <<1, 5>>}
           /\ scoring.result
                  = DescribedLocationScore(scoring.consultant_location, scoring.job_location,
                        Strip(LastSegment(Lower(scoring.consultant_location))),
                        Strip(LastSegment(Lower(scoring.job_location))))
           /\ scoring.result = _calculate_location_match(scoring.job_location,
                                                         Lower(scoring.consultant_location))

\* C26 (as stated): the location score is 0.5 when either location is blank, 1.0 when
\* the two are equal ignoring case, 0.8 when they differ, both hold a comma and their
\* last comma-separated segments are equal, and 0.2 otherwise
C26_LocationScoreComparesSegments ==
    (scoring.fn = "location" /\ scoring.done)
        => scoring.result
               = DescribedLocationScore(scoring.consultant_location, scoring.job_location,
                     LastSegment(Lower(scoring.consultant_location)),
                     LastSegment(Lower(scoring.job_location)))

\* C26 witness: the scorer has been applied to "U,nl " and "A, NL", two cities of one
\* country written with different case and spacing, and has returned 0.8
C26_SameCountryScored ==
    /\ scoring.fn = "location" /\ scoring.done
    /\ scoring.consultant_location = <<"U", ",", "n", "l", " ">>
    /\ scoring.job_location = <<"A", ",", " ", "N", "L">>
    /\ scoring.result = <<4, 5>>

\* C27: on a database that answers, a find_matches_for_job call for a job that exists
\* returns 'success' and raises nothing, whether or not the job has rows
C27_FindMatchesSucceeds ==
    (last.op = "find_matches_for_job" /\ last.id \in Jobs /\ store_fault = NoFault)
        => last.status = "success" /\ last.logged = {}

WrittenScores(done, rows, c, j) ==
    {<<r.total_score, r.skill_score, r.experience_score, r.rate_score, r.location_score>> :
         r \in LookupMatch(done.rows, c, j) \ rows}

====
